---- MODULE Spec2Model ----
(***************************************************************************)
(* A model of the standard-script decoder of src/src/scripts.rs:           *)
(* Opcode::from_byte, the Opcode -> String conversion, ScriptBuilder and   *)
(* StandardScripts::parse with its template decoders.                      *)
(*                                                                         *)
(* Bytes are the integers 0..255.  A Rust String is a sequence of          *)
(* one-character strings, so that joining, trimming and hex encoding are   *)
(* computed character by character.  An Opcode is a record [tag, n]; n is  *)
(* the u8 payload of PushBytes and Num and 0 for the other variants.       *)
(***************************************************************************)
EXTENDS Integers, Sequences, FiniteSets, TLC

VARIABLES
    input,               \* the &[u8] the Cursor borrows
    start,               \* the Cursor's position when parse was called
    pos,                 \* the Cursor's position
    pc,                  \* the function (or the part of parse_p2ms) about to run
    first_opcode,        \* parse: first_opcode
    threshold_opcode,    \* parse_p2ms: threshold_opcode
    pubkey_count,        \* parse_p2ms: pubkey_count (u8)
    parsed_pubkey_count, \* parse_p2ms: parsed_pubkey_count (u8)
    pushbytes_buffer,    \* parse_p2ms: pushbytes_buffer
    script_builder,      \* ScriptBuilder.0 : Vec<String>
    result,              \* what the call returned: Ok(String), Err(io::Error) or a panic
    arg                  \* OpcodeSpec: the argument the pure function is applied to

vars == <<input, start, pos, pc, first_opcode, threshold_opcode, pubkey_count,
          parsed_pubkey_count, pushbytes_buffer, script_builder, result, arg>>

Bytes == 0..255

U8Modulus == 256

(***************************************************************************)
(* Opcode (scripts.rs 380-395)                                             *)
(***************************************************************************)
Op(tag) == [tag |-> tag, n |-> 0]

OP_HASH160 == Op("OP_HASH160")

OP_CHECKSIG == Op("OP_CHECKSIG")

OP_EQUAL == Op("OP_EQUAL")

OP_EQUALVERIFY == Op("OP_EQUALVERIFY")

OP_CHECKMULTISIG == Op("OP_CHECKMULTISIG")

OP_DUP == Op("OP_DUP")

OP_RETURN == Op("OP_RETURN")

OP_0 == Op("OP_0")

OP_1 == Op("OP_1")

UnsupportedOpcode == Op("UnsupportedOpcode")

Num(value) == [tag |-> "Num", n |-> value]

PushBytes(value) == [tag |-> "PushBytes", n |-> value]

NoOpcode == Op("none")

FixedOpcodes ==
    {OP_HASH160, OP_CHECKSIG, OP_EQUAL, OP_EQUALVERIFY, OP_CHECKMULTISIG,
     OP_DUP, OP_RETURN, OP_0, OP_1}

Opcodes ==
    FixedOpcodes \cup {UnsupportedOpcode}
        \cup {Num(v) : v \in Bytes} \cup {PushBytes(v) : v \in Bytes}

\* ToNum with the table one place off: 82 => 1, ..., 96 => 15.
ToNumOneOff(byte) == byte - 81

\* The inner match of from_byte (scripts.rs 411-428); the arm `_` is not
\* reachable from the outer arm 82..=96 and maps to no number here.
ToNum(byte) ==
    CASE byte = 82 -> 2
      [] byte = 83 -> 3
      [] byte = 84 -> 4
      [] byte = 85 -> 5
      [] byte = 86 -> 6
      [] byte = 87 -> 7
      [] byte = 88 -> 8
      [] byte = 89 -> 9
      [] byte = 90 -> 10
      [] byte = 91 -> 11
      [] byte = 92 -> 12
      [] byte = 93 -> 13
      [] byte = 94 -> 14
      [] byte = 95 -> 15
      [] byte = 96 -> 16
      [] OTHER -> -1

\* Opcode::from_byte, arm by arm in the order of the match.
from_byte(byte) ==
    IF byte = 169 THEN OP_HASH160
    ELSE IF byte \in 1..75 THEN PushBytes(byte)
    ELSE IF byte = 172 THEN OP_CHECKSIG
    ELSE IF byte = 135 THEN OP_EQUAL
    ELSE IF byte = 136 THEN OP_EQUALVERIFY
    ELSE IF byte = 174 THEN OP_CHECKMULTISIG
    ELSE IF byte = 118 THEN OP_DUP
    ELSE IF byte = 106 THEN OP_RETURN
    ELSE IF byte = 0 THEN OP_0
    ELSE IF byte = 81 THEN OP_1
    ELSE IF byte \in 82..96
        THEN (IF ToNum(byte) < 0 THEN UnsupportedOpcode ELSE Num(ToNum(byte)))
    ELSE UnsupportedOpcode

(***************************************************************************)
(* Strings                                                                 *)
(***************************************************************************)
DecDigits == <<"0", "1", "2", "3", "4", "5", "6", "7", "8", "9">>

HexDigits ==
    <<"0", "1", "2", "3", "4", "5", "6", "7", "8", "9", "a", "b", "c", "d", "e", "f">>

\* to_string padded to the three digits of a u8.
to_string_padded(value) ==
    <<DecDigits[(value \div 100) + 1], DecDigits[((value \div 10) % 10) + 1],
      DecDigits[(value % 10) + 1]>>

\* u8::to_string: the decimal digits, most significant first, no leading zero.
RECURSIVE to_string(_)
to_string(value) ==
    IF value < 10 THEN <<DecDigits[value + 1]>>
    ELSE Append(to_string(value \div 10), DecDigits[(value % 10) + 1])

\* hex_encode with the low nibble first.
hex_encode_low_first(bytes) ==
    [i \in 1..(2 * Len(bytes)) |->
        IF i % 2 = 1 THEN HexDigits[(bytes[(i + 1) \div 2] % 16) + 1]
        ELSE HexDigits[(bytes[i \div 2] \div 16) + 1]]

\* hex::encode: two lower-case digits per byte, the high nibble first.
hex_encode(bytes) ==
    [i \in 1..(2 * Len(bytes)) |->
        IF i % 2 = 1 THEN HexDigits[(bytes[(i + 1) \div 2] \div 16) + 1]
        ELSE HexDigits[(bytes[i \div 2] % 16) + 1]]

STR_OP == <<"O", "P", "_">>

STR_HASH160 == <<"H", "A", "S", "H", "1", "6", "0">>

STR_CHECKSIG == <<"C", "H", "E", "C", "K", "S", "I", "G">>

STR_EQUAL == <<"E", "Q", "U", "A", "L">>

STR_VERIFY == <<"V", "E", "R", "I", "F", "Y">>

STR_CHECKMULTISIG == <<"C", "H", "E", "C", "K", "M", "U", "L", "T", "I", "S", "I", "G">>

STR_DUP == <<"D", "U", "P">>

STR_RETURN == <<"R", "E", "T", "U", "R", "N">>

STR_PUSHBYTES == <<"P", "U", "S", "H", "B", "Y", "T", "E", "S", "_">>

(***************************************************************************)
(* What a call returns: io::Result<String>, or a panic that unwinds it.    *)
(***************************************************************************)
NoResult == [kind |-> "none", error |-> "", message |-> "", out |-> <<>>]

Ok(out) == [kind |-> "Ok", error |-> "", message |-> "", out |-> out]

Err(error, message) ==
    [kind |-> "Err", error |-> error, message |-> message, out |-> <<>>]

\* Indexing a slice with a range that ends after its length panics.
Panic(message) == [kind |-> "Panic", error |-> "", message |-> message, out |-> <<>>]

\* Read::read_exact on a Cursor with fewer bytes left than the buffer takes.
ErrEof == Err("UnexpectedEof", "failed to fill whole buffer")

\* StandardScripts::to_io_error
to_io_error(message) == Err("InvalidData", message)

ErrUnsupportedOpcode ==
    Err("InvalidData",
        "Unsupported Opcode. Opcode not part of Bitcoin Core standard scripts")

\* TryFrom<Opcode> for String: [ok, text], text meaningful when ok.
OpcodeToString(value) ==
    CASE value.tag = "OP_HASH160" -> [ok |-> TRUE, text |-> STR_OP \o STR_HASH160]
      [] value.tag = "PushBytes" ->
            [ok |-> TRUE, text |-> STR_OP \o STR_PUSHBYTES \o to_string(value.n)]
      [] value.tag = "OP_CHECKSIG" -> [ok |-> TRUE, text |-> STR_OP \o STR_CHECKSIG]
      [] value.tag = "OP_EQUAL" -> [ok |-> TRUE, text |-> STR_OP \o STR_EQUAL]
      [] value.tag = "OP_EQUALVERIFY" ->
            [ok |-> TRUE, text |-> STR_OP \o STR_EQUAL \o STR_VERIFY]
      [] value.tag = "OP_CHECKMULTISIG" ->
            [ok |-> TRUE, text |-> STR_OP \o STR_CHECKMULTISIG]
      [] value.tag = "OP_DUP" -> [ok |-> TRUE, text |-> STR_OP \o STR_DUP]
      [] value.tag = "OP_RETURN" -> [ok |-> TRUE, text |-> STR_OP \o STR_RETURN]
      [] value.tag = "OP_0" -> [ok |-> TRUE, text |-> STR_OP \o <<"0">>]
      [] value.tag = "OP_1" -> [ok |-> TRUE, text |-> STR_OP \o <<"1">>]
      [] value.tag = "Num" -> [ok |-> TRUE, text |-> STR_OP \o to_string(value.n)]
      [] OTHER -> [ok |-> FALSE, text |-> <<>>]

(***************************************************************************)
(* ScriptBuilder (scripts.rs 346-378).  A builder is the Vec<String>; the  *)
(* fallible calls return [ok, tokens].                                     *)
(***************************************************************************)
ScriptBuilderNew == <<>>

push_opcode(builder, opcode) ==
    LET opcode_string == OpcodeToString(opcode)
    IN  IF opcode_string.ok
        THEN [ok |-> TRUE, tokens |-> Append(builder, opcode_string.text)]
        ELSE [ok |-> FALSE, tokens |-> builder]

push_bytes(builder, bytes) ==
    [ok |-> TRUE, tokens |-> Append(builder, hex_encode(bytes))]

\* One link of a chain  .push_opcode(o)?  or  .push_bytes(b)?
OpItem(opcode) == [is_opcode |-> TRUE, opcode |-> opcode, bytes |-> <<>>]

BytesItem(bytes) == [is_opcode |-> FALSE, opcode |-> NoOpcode, bytes |-> bytes]

\* A chain of pushes; the first failing push_opcode ends it (the `?`).
RECURSIVE PushChain(_, _)
PushChain(builder, items) ==
    IF items = <<>> THEN [ok |-> TRUE, tokens |-> builder]
    ELSE LET pushed == IF Head(items).is_opcode
                       THEN push_opcode(builder, Head(items).opcode)
                       ELSE push_bytes(builder, Head(items).bytes)
         IN  IF pushed.ok THEN PushChain(pushed.tokens, Tail(items)) ELSE pushed

IsWhitespace(c) == c = " "

\* str::trim: without the leading and the trailing whitespace.
Trim(s) ==
    IF \A i \in 1..Len(s) : IsWhitespace(s[i]) THEN <<>>
    ELSE LET lo == CHOOSE i \in 1..Len(s) :
                        ~IsWhitespace(s[i]) /\ \A j \in 1..(i - 1) : IsWhitespace(s[j])
             hi == CHOOSE i \in 1..Len(s) :
                        ~IsWhitespace(s[i]) /\ \A j \in (i + 1)..Len(s) : IsWhitespace(s[j])
         IN  SubSeq(s, lo, hi)

\* .map(|mut part| { part.push(' '); part }).collect::<String>() of the parts
\* first..last, in order (halved, to keep the evaluation shallow).
RECURSIVE CollectParts(_, _, _)
CollectParts(parts, first, last) ==
    IF first > last THEN <<>>
    ELSE IF first = last THEN Append(parts[first], " ")
    ELSE LET middle == (first + last) \div 2
         IN  CollectParts(parts, first, middle) \o CollectParts(parts, middle + 1, last)

\* ScriptBuilder::build
build(builder) == Trim(CollectParts(builder, 1, Len(builder)))

\* The end of a template decoder: the chain of pushes, then Ok(build()).
BuildResult(items) ==
    LET chain == PushChain(ScriptBuilderNew, items)
    IN  IF chain.ok THEN Ok(build(chain.tokens)) ELSE ErrUnsupportedOpcode

(***************************************************************************)
(* The inputs: scripts of every template, their strict prefixes, and the   *)
(* scripts with one opcode byte replaced.                                  *)
(***************************************************************************)
MaxSeed == 1

MaxKeys == 2

MaxDataLen == 2

MaxStart == 1

\* Payload bytes: all zero for seed 0 (the scripts of main.rs), mixed otherwise.
PayloadByte(seed, j) == (seed * ((37 * j) + 11)) % 256

Payload(seed, len) == [j \in 1..len |-> PayloadByte(seed, j)]

\* `count` pushes of key_len bytes: each the opcode PushBytes(key_len) and a payload,
\* the payloads of successive keys differing.
KeyPushes(seed, key_len, count) ==
    [p \in 1..(count * (key_len + 1)) |->
        LET key == (p - 1) \div (key_len + 1)
            offset == (p - 1) % (key_len + 1)
        IN  IF offset = 0 THEN key_len ELSE PayloadByte(seed + key, offset)]

NumByte(n) == 80 + n

P2pkScript(seed) == <<65>> \o Payload(seed, 65) \o <<172>>

P2pkhScript(seed) == <<118, 169, 20>> \o Payload(seed, 20) \o <<136, 172>>

P2shScript(seed) == <<169, 20>> \o Payload(seed, 20) \o <<135>>

P2wpkhScript(seed) == <<0, 20>> \o Payload(seed, 20)

P2wshScript(seed) == <<0, 32>> \o Payload(seed, 32)

P2trScript(seed) == <<81, 32>> \o Payload(seed, 32)

DataScript(seed, len) == <<106, len>> \o Payload(seed, len)

\* threshold opcode, `keys` pushes of key_len bytes, count opcode, CHECKMULTISIG
MultisigScript(seed, threshold, keys, key_len, count) ==
    <<NumByte(threshold)>> \o KeyPushes(seed, key_len, keys)
        \o <<NumByte(count), 174>>

Seeds == 0..MaxSeed

DataLens == (1..MaxDataLen) \cup {75}

KeyLens == {1, 32, 33, 65, 75}

FixedScripts(seed) ==
    {P2pkScript(seed), P2pkhScript(seed), P2shScript(seed), P2wpkhScript(seed),
     P2wshScript(seed), P2trScript(seed)}

\* Every threshold and count opcode of 1..16, with as many 65-byte keys as declared.
FullMultisigScripts ==
    {MultisigScript(seed, t, c, 65, c) : seed \in Seeds, t \in 1..16, c \in 1..16}

\* Few keys of either length, the count opcode agreeing with them or not.
SmallMultisigScripts ==
    UNION {{MultisigScript(0, t, k, len, c) : t \in 1..(MaxKeys + 1), c \in 1..(MaxKeys + 1)}
            : k \in 0..MaxKeys, len \in KeyLens}

\* The scripts the prefixes and the replacements are taken of.
BaseScripts ==
    FixedScripts(1)
        \cup {DataScript(1, len) : len \in DataLens}
        \cup UNION {{MultisigScript(1, t, k, len, k) : t \in 1..k}
                        : k \in 1..MaxKeys, len \in KeyLens}

Scripts0 ==
    UNION {FixedScripts(seed) : seed \in Seeds}
        \cup {DataScript(seed, len) : seed \in Seeds, len \in DataLens}
        \cup FullMultisigScripts \cup SmallMultisigScripts

\* One-byte keys, as many as a u8 counts and a few more.
LongMultisigScripts ==
    {MultisigScript(0, t, keys, 1, 2) :
        t \in 1..2, keys \in {U8Modulus - 1, U8Modulus, U8Modulus + 2}}

SingleByteScripts == {<<byte>> : byte \in Bytes}

StrictPrefixes(script) == {SubSeq(script, 1, len) : len \in 0..(Len(script) - 1)}

PrefixScripts == UNION {StrictPrefixes(script) : script \in BaseScripts}

\* The places of a script where the decoders expect an opcode.
RECURSIVE OpcodePositions(_, _)
OpcodePositions(script, at) ==
    IF at > Len(script) THEN {}
    ELSE {at} \cup OpcodePositions(script,
                       IF script[at] \in 1..75 THEN at + 1 + script[at] ELSE at + 1)

Replace(script, at, byte) == [script EXCEPT ![at] = byte]

ReplacedBase ==
    FixedScripts(1) \cup {DataScript(1, 1), MultisigScript(1, 2, 2, 65, 2)}

ReplacedScripts ==
    UNION {{Replace(script, at, byte) : at \in OpcodePositions(script, 1), byte \in Bytes}
            : script \in ReplacedBase}

MaxTrailing == 3

\* The bytes after a script: every single byte, and a few longer runs.
TrailingTails ==
    {<<byte>> : byte \in Bytes} \cup {Payload(1, len) : len \in 2..MaxTrailing}

TrailingBase ==
    FixedScripts(1)
        \cup {DataScript(1, 1), MultisigScript(1, 1, 2, 65, 2), MultisigScript(1, 2, 2, 33, 2)}

\* Scripts followed by bytes that are not theirs.
TrailingScripts == {script \o tail : script \in TrailingBase, tail \in TrailingTails}

Scripts ==
    Scripts0 \cup PrefixScripts \cup ReplacedScripts \cup LongMultisigScripts
        \cup SingleByteScripts \cup TrailingScripts

\* Bytes of an enclosing buffer before the script; the Cursor starts after them.
Before(count) == [j \in 1..count |-> 255]

Starts(script) ==
    IF script \in FixedScripts(0) \cup {MultisigScript(0, 1, 2, 65, 2)}
    THEN 0..MaxStart ELSE {0}

(***************************************************************************)
(* StandardScripts::parse and the template decoders, on the Cursor         *)
(* (input, pos).  The byte at the Cursor is input[pos + 1].                *)
(***************************************************************************)
Remaining == Len(input) - pos

\* The byte read_exact puts into a one-byte buffer, `skip` bytes after pos.
ByteAt(skip) == input[pos + skip + 1]

OpcodeAt(skip) == from_byte(ByteAt(skip))

\* The bytes read_exact puts into a buffer of `len` bytes, `skip` bytes after pos.
BytesAt(skip, len) == SubSeq(input, pos + skip + 1, pos + skip + len)

\* A return with the Cursor `used` bytes further.
Return(value, used) ==
    /\ result' = value
    /\ pos' = pos + used
    /\ pc' = "done"

\* A read_exact that fails after `used` bytes were read: the Cursor stays where the
\* failed read began or is put at the end of the input, as the standard library
\* of the toolchain has it.
ReturnEof(used) ==
    /\ result' = ErrEof
    /\ pos' \in {pos + used, Len(input)}
    /\ pc' = "done"

\* A call of (or a step into) the next function with the Cursor `used` bytes further.
Goto(label, used) ==
    /\ pc' = label
    /\ pos' = pos + used
    /\ result' = result

\* The end of a template decoder that takes bytes left in the input for an error.
ReturnBuiltAtEnd(items, used) ==
    /\ Return(IF pos + used = Len(input) THEN BuildResult(items)
              ELSE to_io_error("Invalid Script. Bytes left after the script"), used)
    /\ script_builder' = PushChain(ScriptBuilderNew, items).tokens

\* The end of a template decoder that consumed `used` bytes: the built script.
ReturnBuilt(items, used) ==
    /\ Return(BuildResult(items), used)
    /\ script_builder' = PushChain(ScriptBuilderNew, items).tokens

\* The Cursor put back by one byte only.
RewoundByOne(position) == position - 1

\* bytes.set_position(bytes.position() - 2) (scripts.rs 55)
Rewound(position) == position - 2

\* The branch for OP_0 without its last arm: a second opcode other than
\* PushBytes(32) is taken for the one of P2WPKH.
ParseAfterOp0Unchecked ==
    IF Remaining < 2 THEN ReturnEof(1)
    ELSE IF OpcodeAt(1) = PushBytes(32) THEN Goto("parse_p2wsh", 2)
    ELSE Goto("parse_p2wpkh", 2)

\* The branch of parse for a first opcode OP_0 (scripts.rs 31-43).
ParseAfterOp0 ==
    IF Remaining < 2 THEN ReturnEof(1)
    ELSE IF OpcodeAt(1) = PushBytes(20) THEN Goto("parse_p2wpkh", 2)
    ELSE IF OpcodeAt(1) = PushBytes(32) THEN Goto("parse_p2wsh", 2)
    ELSE Return(to_io_error(
            "Invalid Script. Expected OP_PUSHBYTES_20 or OP_PUSHBYTES_32 after OP_0"), 2)

\* The branch `_` of parse (scripts.rs 44-58): P2TR, or back two bytes and P2MS.
ParseOther ==
    IF Remaining < 2 THEN ReturnEof(1)
    ELSE IF OpcodeAt(0) = OP_1 /\ OpcodeAt(1) = PushBytes(32) THEN Goto("parse_p2tr", 2)
    ELSE /\ pc' = "parse_p2ms"
         /\ pos' = Rewound(pos + 2)
         /\ result' = result

\* StandardScripts::parse (scripts.rs 12-60)
Parse ==
    /\ pc = "parse"
    /\ UNCHANGED <<input, start, threshold_opcode, pubkey_count, parsed_pubkey_count,
                   pushbytes_buffer, script_builder, arg>>
    /\ IF Remaining < 1 THEN first_opcode' = first_opcode /\ ReturnEof(0)
       ELSE /\ first_opcode' = OpcodeAt(0)
            /\ IF OpcodeAt(0) = PushBytes(65) THEN Goto("parse_p2pk", 1)
               ELSE IF OpcodeAt(0) = OP_DUP THEN Goto("parse_p2pkh", 1)
               ELSE IF OpcodeAt(0) = OP_HASH160 THEN Goto("parse_p2sh", 1)
               ELSE IF OpcodeAt(0) = OP_RETURN THEN Goto("parse_data", 1)
               ELSE IF OpcodeAt(0) = OP_0 THEN ParseAfterOp0
               ELSE ParseOther

\* What the decoders other than parse_p2ms leave alone.
DecoderUnchanged ==
    UNCHANGED <<input, start, first_opcode, threshold_opcode, pubkey_count,
                parsed_pubkey_count, pushbytes_buffer, arg>>

Fail(value, used) == Return(value, used) /\ UNCHANGED script_builder

FailEof(used) == ReturnEof(used) /\ UNCHANGED script_builder

\* StandardScripts::parse_p2pk (scripts.rs 70-96)
ParseP2pk ==
    /\ pc = "parse_p2pk"
    /\ DecoderUnchanged
    /\ IF Remaining < 65 THEN FailEof(0)
       ELSE IF Remaining < 66 THEN FailEof(65)
       ELSE IF OpcodeAt(65) # OP_CHECKSIG
       THEN Fail(Err("InvalidData",
                "Invalid Data. Expected OP_CHECKSIG as last byte of the script."), 66)
       ELSE ReturnBuilt(<<OpItem(PushBytes(65)), BytesItem(BytesAt(0, 65)),
                          OpItem(OP_CHECKSIG)>>, 66)

\* StandardScripts::parse_p2pkh (scripts.rs 99-157)
ParseP2pkh ==
    /\ pc = "parse_p2pkh"
    /\ DecoderUnchanged
    /\ IF Remaining < 1 THEN FailEof(0)
       ELSE IF OpcodeAt(0) # OP_HASH160
       THEN Fail(Err("InvalidData",
                "Invalid Data. Expected OP_HASH160 as second byte of the script."), 1)
       ELSE IF Remaining < 2 THEN FailEof(1)
       ELSE IF OpcodeAt(1) # PushBytes(20)
       THEN Fail(Err("InvalidData",
                "Invalid Data. Expected OP_PUSHBYTES_20 as third byte of the script."), 2)
       ELSE IF Remaining < 22 THEN FailEof(2)
       ELSE IF Remaining < 23 THEN FailEof(22)
       ELSE IF OpcodeAt(22) # OP_EQUALVERIFY
       THEN Fail(Err("InvalidData",
                "Invalid Data. Expected OP_EQUALVERIFY after reading 20 bytes after third byte of the script."),
                23)
       ELSE IF Remaining < 24 THEN FailEof(23)
       ELSE IF OpcodeAt(23) # OP_CHECKSIG
       THEN Fail(Err("InvalidData",
                "Invalid Data. Expected OP_CHECKSIG after reading OP_EQUALVERIFY byte in the script."),
                24)
       ELSE ReturnBuilt(<<OpItem(OP_DUP), OpItem(OP_HASH160), OpItem(PushBytes(20)),
                          BytesItem(BytesAt(2, 20)), OpItem(OP_EQUALVERIFY),
                          OpItem(OP_CHECKSIG)>>, 24)

\* StandardScripts::parse_p2sh (scripts.rs 160-194)
ParseP2sh ==
    /\ pc = "parse_p2sh"
    /\ DecoderUnchanged
    /\ IF Remaining < 1 THEN FailEof(0)
       ELSE IF OpcodeAt(0) # PushBytes(20)
       THEN Fail(to_io_error(
                "Invalid Data. Expected an OP_PUSHBYTES_20 opcode after OP_HASH160"), 1)
       ELSE IF Remaining < 21 THEN FailEof(1)
       ELSE IF Remaining < 22 THEN FailEof(21)
       ELSE IF OpcodeAt(21) # OP_EQUAL
       THEN Fail(to_io_error(
                "Invalid Data. Expected an OP_EQUAL opcode after reading 20 bytes"), 22)
       ELSE ReturnBuilt(<<OpItem(OP_HASH160), OpItem(PushBytes(20)),
                          BytesItem(BytesAt(1, 20)), OpItem(OP_EQUAL)>>, 22)

\* read_bytes without its last arm: an opcode that is no PushBytes reads no byte.
read_bytes_any(opcode, position) ==
    IF opcode.tag = "PushBytes"
    THEN LET new_position == position + opcode.n
         IN  IF new_position > Len(input)
             THEN [kind |-> "panic", bytes |-> <<>>, position |-> position]
             ELSE [kind |-> "ok", bytes |-> SubSeq(input, position + 1, new_position),
                   position |-> new_position]
    ELSE [kind |-> "ok", bytes |-> <<>>, position |-> position]

\* Opcode::read_bytes (scripts.rs 435-451) for the opcode read at the Cursor, the
\* Cursor then one byte further: "ok" with the bytes, "panic" when the slice range
\* ends after the input, "unsupported" for an opcode that is no PushBytes.
read_bytes(opcode, position) ==
    IF opcode.tag = "PushBytes"
    THEN LET new_position == position + opcode.n
         IN  IF new_position > Len(input)
             THEN [kind |-> "panic", bytes |-> <<>>, position |-> position]
             ELSE [kind |-> "ok", bytes |-> SubSeq(input, position + 1, new_position),
                   position |-> new_position]
    ELSE [kind |-> "unsupported", bytes |-> <<>>, position |-> position]

SliceIndexPanic == Panic("range end index out of range for slice")

\* StandardScripts::parse_data (scripts.rs 197-213)
ParseData ==
    /\ pc = "parse_data"
    /\ DecoderUnchanged
    /\ IF Remaining < 1 THEN FailEof(0)
       ELSE LET second_opcode == OpcodeAt(0)
                data_bytes == read_bytes(second_opcode, pos + 1)
            IN  IF data_bytes.kind = "panic" THEN Fail(SliceIndexPanic, 1)
                ELSE IF data_bytes.kind = "unsupported"
                THEN Fail(Err("Unsupported", "This operation is not supported"), 1)
                ELSE ReturnBuilt(<<OpItem(OP_RETURN), OpItem(second_opcode),
                                   BytesItem(data_bytes.bytes)>>,
                                 data_bytes.position - pos)

\* StandardScripts::parse_p2wpkh (scripts.rs 216-228)
ParseP2wpkh ==
    /\ pc = "parse_p2wpkh"
    /\ DecoderUnchanged
    /\ IF Remaining < 20 THEN FailEof(0)
       ELSE ReturnBuilt(<<OpItem(OP_0), OpItem(PushBytes(20)),
                          BytesItem(BytesAt(0, 20))>>, 20)

\* StandardScripts::parse_p2wsh (scripts.rs 231-243)
ParseP2wsh ==
    /\ pc = "parse_p2wsh"
    /\ DecoderUnchanged
    /\ IF Remaining < 32 THEN FailEof(0)
       ELSE ReturnBuilt(<<OpItem(OP_0), OpItem(PushBytes(32)),
                          BytesItem(BytesAt(0, 32))>>, 32)

\* StandardScripts::parse_p2tr (scripts.rs 246-258)
ParseP2tr ==
    /\ pc = "parse_p2tr"
    /\ DecoderUnchanged
    /\ IF Remaining < 32 THEN FailEof(0)
       ELSE ReturnBuilt(<<OpItem(Num(1)), OpItem(PushBytes(32)),
                          BytesItem(BytesAt(0, 32))>>, 32)

(***************************************************************************)
(* StandardScripts::parse_p2ms (scripts.rs 263-343), part by part.         *)
(***************************************************************************)
P2msUnchanged == UNCHANGED <<input, start, first_opcode, arg>>

\* The arm of the outer match that starts the decoder: any first opcode.
IsThresholdOpcodeAny(opcode) == TRUE

\* Opcode::Num(_) | Opcode::OP_1 (scripts.rs 269)
IsThresholdOpcode(opcode) == opcode.tag = "Num" \/ opcode = OP_1

\* Opcode::Num(value) (scripts.rs 283)
IsCountOpcode(opcode) == opcode.tag = "Num"

\* The arm of the loop for the 65-byte push alone.
IsKeyPush65(opcode) == opcode = PushBytes(65)

\* Opcode::PushBytes(value) (scripts.rs 289)
IsKeyPush(opcode) == opcode.tag = "PushBytes"

\* scripts.rs 264-277 and 341: the threshold opcode and the locals of the loop.
ParseP2msThreshold ==
    /\ pc = "parse_p2ms"
    /\ P2msUnchanged
    /\ UNCHANGED parsed_pubkey_count
    /\ IF Remaining < 1
       THEN ReturnEof(0)
            /\ UNCHANGED <<threshold_opcode, pubkey_count, pushbytes_buffer, script_builder>>
       ELSE /\ threshold_opcode' = OpcodeAt(0)
            /\ IF IsThresholdOpcode(OpcodeAt(0))
               THEN LET pushed == push_opcode(ScriptBuilderNew, OpcodeAt(0))
                    IN  /\ script_builder' = pushed.tokens
                        /\ pubkey_count' = 0
                        /\ pushbytes_buffer' = <<>>
                        /\ IF pushed.ok THEN Goto("p2ms_loop", 1)
                           ELSE Return(ErrUnsupportedOpcode, 1)
               ELSE /\ Return(to_io_error("Invalid Script."), 1)
                    /\ UNCHANGED <<pubkey_count, pushbytes_buffer, script_builder>>

\* The buffer left as it is.
Kept(buffer) == buffer

\* pushbytes_buffer.clear() (scripts.rs 299)
Cleared(buffer) == <<>>

\* pubkey_count.add(1) on a u8 (scripts.rs 301): the sums a build can produce.
\* An overflow wraps in a build without overflow checks and panics in one with.
AddOne(count) ==
    IF count + 1 < U8Modulus THEN {[panic |-> FALSE, value |-> count + 1]}
    ELSE {[panic |-> FALSE, value |-> (count + 1) % U8Modulus],
          [panic |-> TRUE, value |-> count]}

\* The arm Opcode::PushBytes(value) of the loop (scripts.rs 289-302).
ParseP2msPush(value) ==
    LET new_position == (pos + 1) + value
    IN  IF new_position > Len(input)
        THEN /\ Return(SliceIndexPanic, 1)
             /\ UNCHANGED <<pubkey_count, pushbytes_buffer, script_builder>>
        ELSE LET buffer == pushbytes_buffer \o SubSeq(input, pos + 2, new_position)
                 pushed == PushChain(script_builder,
                                     <<OpItem(PushBytes(value)), BytesItem(buffer)>>)
             IN  /\ script_builder' = pushed.tokens
                 /\ pushbytes_buffer' = Cleared(buffer)
                 /\ \E sum \in AddOne(pubkey_count) :
                        /\ pubkey_count' = sum.value
                        /\ IF sum.panic
                           THEN Return(Panic("attempt to add with overflow"),
                                       new_position - pos)
                           ELSE Goto("p2ms_loop", new_position - pos)

\* One iteration of the loop (scripts.rs 278-309).
ParseP2msLoop ==
    /\ pc = "p2ms_loop"
    /\ P2msUnchanged
    /\ UNCHANGED threshold_opcode
    /\ IF Remaining < 1
       THEN ReturnEof(0)
            /\ UNCHANGED <<pubkey_count, parsed_pubkey_count, pushbytes_buffer,
                           script_builder>>
       ELSE LET current_opcode == OpcodeAt(0)
            IN  IF IsCountOpcode(current_opcode)
                THEN LET pushed == push_opcode(script_builder, current_opcode)
                     IN  /\ parsed_pubkey_count' = current_opcode.n
                         /\ script_builder' = pushed.tokens
                         /\ UNCHANGED <<pubkey_count, pushbytes_buffer>>
                         /\ IF pushed.ok THEN Goto("p2ms_key_count", 1)
                            ELSE Return(ErrUnsupportedOpcode, 1)
                ELSE IF IsKeyPush(current_opcode)
                THEN ParseP2msPush(current_opcode.n) /\ UNCHANGED parsed_pubkey_count
                ELSE /\ Return(to_io_error(
                            "Invalid Script. Expected a PUSH_BYTES_* or OP_1..16"), 1)
                     /\ UNCHANGED <<pubkey_count, parsed_pubkey_count, pushbytes_buffer,
                                    script_builder>>

P2msChecksUnchanged ==
    UNCHANGED <<threshold_opcode, pubkey_count, parsed_pubkey_count, pushbytes_buffer,
                script_builder>>

\* scripts.rs 311-315: the keys read against the count opcode.
ParseP2msKeyCount ==
    /\ pc = "p2ms_key_count"
    /\ P2msUnchanged
    /\ P2msChecksUnchanged
    /\ IF pubkey_count # parsed_pubkey_count
       THEN Return(to_io_error(
                "Invalid Script. The number of public keys for multisignature is less than or greater than the script requirements."),
                0)
       ELSE Goto("p2ms_threshold", 0)

\* scripts.rs 317-326: the count opcode against the threshold opcode.
ParseP2msThresholdCheck ==
    /\ pc = "p2ms_threshold"
    /\ P2msUnchanged
    /\ P2msChecksUnchanged
    /\ IF threshold_opcode.tag = "Num" /\ parsed_pubkey_count < threshold_opcode.n
       THEN Return(to_io_error(
                "Invalid Script. The number of public keys for multisignature is less the threshold."),
                0)
       ELSE Goto("p2ms_checkmultisig", 0)

\* scripts.rs 328-339: OP_CHECKMULTISIG and the built script.
ParseP2msCheckMultisig ==
    /\ pc = "p2ms_checkmultisig"
    /\ P2msUnchanged
    /\ UNCHANGED <<threshold_opcode, pubkey_count, parsed_pubkey_count, pushbytes_buffer>>
    /\ IF Remaining < 1 THEN FailEof(0)
       ELSE IF OpcodeAt(0) # OP_CHECKMULTISIG
       THEN Fail(to_io_error("Invalid Script. OP_CHECKMULTISIG opcode should be next"), 1)
       ELSE LET pushed == push_opcode(script_builder, OP_CHECKMULTISIG)
            IN  /\ script_builder' = pushed.tokens
                /\ Return(IF pushed.ok THEN Ok(build(pushed.tokens))
                          ELSE ErrUnsupportedOpcode, 1)

\* The argument of a call of OpcodeSpec: a byte for from_byte, an Opcode for push_opcode.
NoArg == [kind |-> "none", byte |-> 0, opcode |-> NoOpcode]

(***************************************************************************)
(* Spec: one call of StandardScripts::parse on a Cursor over each input.   *)
(***************************************************************************)
Init ==
    /\ \E script \in Scripts : \E before \in Starts(script) :
            /\ input = Before(before) \o script
            /\ start = before
            /\ pos = before
    /\ pc = "parse"
    /\ first_opcode = NoOpcode
    /\ threshold_opcode = NoOpcode
    /\ pubkey_count = 0
    /\ parsed_pubkey_count = 0
    /\ pushbytes_buffer = <<>>
    /\ script_builder = ScriptBuilderNew
    /\ result = NoResult
    /\ arg = NoArg

Next ==
    \/ Parse
    \/ ParseP2pk
    \/ ParseP2pkh
    \/ ParseP2sh
    \/ ParseData
    \/ ParseP2wpkh
    \/ ParseP2wsh
    \/ ParseP2tr
    \/ ParseP2msThreshold
    \/ ParseP2msLoop
    \/ ParseP2msKeyCount
    \/ ParseP2msThresholdCheck
    \/ ParseP2msCheckMultisig

Spec == Init /\ [][Next]_vars

(***************************************************************************)
(* OpcodeSpec: Opcode::from_byte on every byte, and ScriptBuilder::        *)
(* push_opcode (with the Opcode -> String conversion) on every Opcode.     *)
(***************************************************************************)
OpcodeUnchanged ==
    UNCHANGED <<input, start, pos, threshold_opcode, pubkey_count, parsed_pubkey_count,
                pushbytes_buffer, arg>>

OpcodeInit ==
    /\ \/ /\ pc = "from_byte"
          /\ \E byte \in Bytes : arg = [kind |-> "byte", byte |-> byte, opcode |-> NoOpcode]
       \/ /\ pc = "push_opcode"
          /\ \E opcode \in Opcodes : arg = [kind |-> "opcode", byte |-> 0, opcode |-> opcode]
    /\ input = <<>>
    /\ start = 0
    /\ pos = 0
    /\ first_opcode = NoOpcode
    /\ threshold_opcode = NoOpcode
    /\ pubkey_count = 0
    /\ parsed_pubkey_count = 0
    /\ pushbytes_buffer = <<>>
    /\ script_builder = ScriptBuilderNew
    /\ result = NoResult

\* let first_opcode = Opcode::from_byte(byte)
FromByte ==
    /\ pc = "from_byte"
    /\ first_opcode' = from_byte(arg.byte)
    /\ pc' = "done"
    /\ OpcodeUnchanged
    /\ UNCHANGED <<script_builder, result>>

\* ScriptBuilder::new().push_opcode(opcode): the mnemonic, or the error of the `?`.
PushOpcode ==
    /\ pc = "push_opcode"
    /\ LET pushed == push_opcode(ScriptBuilderNew, arg.opcode)
       IN  /\ script_builder' = pushed.tokens
           /\ result' = IF pushed.ok THEN Ok(OpcodeToString(arg.opcode).text)
                         ELSE ErrUnsupportedOpcode
    /\ pc' = "done"
    /\ OpcodeUnchanged
    /\ UNCHANGED first_opcode

OpcodeNext == FromByte \/ PushOpcode

OpcodeSpec == OpcodeInit /\ [][OpcodeNext]_vars

(***************************************************************************)
(* Properties                                                              *)
(***************************************************************************)
Done == pc = "done"

\* The byte-opcode table, row by row.
C2_Table(byte) ==
    CASE byte = 0 -> OP_0
      [] byte \in 1..75 -> PushBytes(byte)
      [] byte = 81 -> OP_1
      [] byte \in 82..96 -> Num(byte - 80)
      [] byte = 106 -> OP_RETURN
      [] byte = 118 -> OP_DUP
      [] byte = 135 -> OP_EQUAL
      [] byte = 136 -> OP_EQUALVERIFY
      [] byte = 169 -> OP_HASH160
      [] byte = 172 -> OP_CHECKSIG
      [] byte = 174 -> OP_CHECKMULTISIG
      [] OTHER -> UnsupportedOpcode

\* C2: Opcode::from_byte returns, for every byte 0..255, the one Opcode the
\* byte-opcode table gives for it, and UnsupportedOpcode for a byte outside the table.
C2_FromByteMatchesTable ==
    (Done /\ arg.kind = "byte") =>
        /\ first_opcode \in Opcodes
        /\ first_opcode = C2_Table(arg.byte)

C2_Witness ==
    /\ Done
    /\ arg.kind = "byte"
    /\ arg.byte = 96
    /\ first_opcode = Num(16)

C3_FixedName(opcode) ==
    CASE opcode = OP_HASH160 -> <<"O", "P", "_", "H", "A", "S", "H", "1", "6", "0">>
      [] opcode = OP_CHECKSIG -> <<"O", "P", "_", "C", "H", "E", "C", "K", "S", "I", "G">>
      [] opcode = OP_EQUAL -> <<"O", "P", "_", "E", "Q", "U", "A", "L">>
      [] opcode = OP_EQUALVERIFY ->
            <<"O", "P", "_", "E", "Q", "U", "A", "L", "V", "E", "R", "I", "F", "Y">>
      [] opcode = OP_CHECKMULTISIG ->
            <<"O", "P", "_", "C", "H", "E", "C", "K", "M", "U", "L", "T", "I", "S", "I", "G">>
      [] opcode = OP_DUP -> <<"O", "P", "_", "D", "U", "P">>
      [] opcode = OP_RETURN -> <<"O", "P", "_", "R", "E", "T", "U", "R", "N">>
      [] opcode = OP_0 -> <<"O", "P", "_", "0">>
      [] opcode = OP_1 -> <<"O", "P", "_", "1">>

DigitValue(c) ==
    CASE c = "0" -> 0 [] c = "1" -> 1 [] c = "2" -> 2 [] c = "3" -> 3 [] c = "4" -> 4
      [] c = "5" -> 5 [] c = "6" -> 6 [] c = "7" -> 7 [] c = "8" -> 8 [] c = "9" -> 9
      [] OTHER -> -1

RECURSIVE DecimalValue(_)
DecimalValue(digits) ==
    IF digits = <<>> THEN 0
    ELSE (10 * DecimalValue(SubSeq(digits, 1, Len(digits) - 1)))
            + DigitValue(digits[Len(digits)])

\* `text` is `prefix` followed by the decimal numeral of n, without a leading zero.
IsNumbered(text, prefix, n) ==
    /\ Len(text) > Len(prefix)
    /\ SubSeq(text, 1, Len(prefix)) = prefix
    /\ LET digits == SubSeq(text, Len(prefix) + 1, Len(text))
       IN  /\ \A i \in 1..Len(digits) : DigitValue(digits[i]) >= 0
           /\ Len(digits) > 1 => digits[1] # "0"
           /\ DecimalValue(digits) = n

C3_IsCanonicalName(opcode, text) ==
    IF opcode.tag = "PushBytes"
    THEN IsNumbered(text, <<"O", "P", "_", "P", "U", "S", "H", "B", "Y", "T", "E", "S", "_">>,
                    opcode.n)
    ELSE IF opcode.tag = "Num" THEN IsNumbered(text, <<"O", "P", "_">>, opcode.n)
    ELSE text = C3_FixedName(opcode)

\* C3: push_opcode (the Opcode -> String conversion) fails exactly for
\* UnsupportedOpcode, pushing nothing; for every other Opcode it pushes the one
\* canonical name: the fixed OP_* name, OP_PUSHBYTES_<n> or OP_<n>.
C3_MnemonicOrUnsupported ==
    (Done /\ arg.kind = "opcode") =>
        /\ result.kind \in {"Ok", "Err"}
        /\ result.kind = "Err" <=> arg.opcode = UnsupportedOpcode
        /\ result.kind = "Err" => (result = ErrUnsupportedOpcode /\ script_builder = <<>>)
        /\ result.kind = "Ok" =>
                /\ C3_IsCanonicalName(arg.opcode, result.out)
                /\ script_builder = <<result.out>>

C3_Witness ==
    /\ Done
    /\ arg.kind = "opcode"
    /\ arg.opcode = UnsupportedOpcode
    /\ result = ErrUnsupportedOpcode
    /\ script_builder = <<>>

\* The script: the bytes from the Cursor's first position to the end of the input.
Script == SubSeq(input, start + 1, Len(input))

\* The bytes the call consumed.
Consumed == SubSeq(input, start + 1, pos)

NibbleChar(n) ==
    CASE n = 0 -> "0" [] n = 1 -> "1" [] n = 2 -> "2" [] n = 3 -> "3" [] n = 4 -> "4"
      [] n = 5 -> "5" [] n = 6 -> "6" [] n = 7 -> "7" [] n = 8 -> "8" [] n = 9 -> "9"
      [] n = 10 -> "a" [] n = 11 -> "b" [] n = 12 -> "c" [] n = 13 -> "d"
      [] n = 14 -> "e" [] n = 15 -> "f"

\* The lower-case hex of bytes[first..last].
RECURSIVE HexOf(_, _, _)
HexOf(bytes, first, last) ==
    IF first > last THEN <<>>
    ELSE IF first = last
    THEN <<NibbleChar(bytes[first] \div 16), NibbleChar(bytes[first] % 16)>>
    ELSE LET middle == (first + last) \div 2
         IN  HexOf(bytes, first, middle) \o HexOf(bytes, middle + 1, last)

Hex(bytes) == HexOf(bytes, 1, Len(bytes))

\* tokens[first..last] with one space between neighbours.
RECURSIVE JoinOf(_, _, _)
JoinOf(tokens, first, last) ==
    IF first > last THEN <<>>
    ELSE IF first = last THEN tokens[first]
    ELSE LET middle == (first + last) \div 2
         IN  JoinOf(tokens, first, middle) \o <<" ">> \o JoinOf(tokens, middle + 1, last)

Join(tokens) == JoinOf(tokens, 1, Len(tokens))

\* The numeral of n < 100.
Numeral(n) ==
    IF n < 10 THEN <<NibbleChar(n)>> ELSE <<NibbleChar(n \div 10), NibbleChar(n % 10)>>

NameOfSmallInt(n) == <<"O", "P", "_">> \o Numeral(n)

NameOfPush(n) ==
    <<"O", "P", "_", "P", "U", "S", "H", "B", "Y", "T", "E", "S", "_">> \o Numeral(n)

NameCheckSig == <<"O", "P", "_", "C", "H", "E", "C", "K", "S", "I", "G">>

NameCheckMultisig ==
    <<"O", "P", "_", "C", "H", "E", "C", "K", "M", "U", "L", "T", "I", "S", "I", "G">>

(* A multisig script with keys of one length: a threshold opcode (81..96), KeyCount *)
(* pushes PushBytes(KeyLen) each with KeyLen bytes, a count opcode (81..96) and     *)
(* CHECKMULTISIG.                                                                   *)
KeyLen == Script[2]

KeyCount == (Len(Script) - 3) \div (KeyLen + 1)

Threshold == Script[1] - 80

Declared == Script[Len(Script) - 1] - 80

IsMultisig ==
    /\ Len(Script) >= 5
    /\ Script[1] \in 81..96
    /\ KeyLen \in 1..75
    /\ (Len(Script) - 3) % (KeyLen + 1) = 0
    /\ \A i \in 0..(KeyCount - 1) : Script[(i * (KeyLen + 1)) + 2] = KeyLen
    /\ Script[Len(Script) - 1] \in 81..96
    /\ Script[Len(Script)] = 174

\* The i-th key, i from 1.
Key(i) == SubSeq(Script, ((i - 1) * (KeyLen + 1)) + 3, i * (KeyLen + 1) + 1)

\* The tokens of the multisig script, in the order of its bytes.
MultisigTokens ==
    [j \in 1..((2 * KeyCount) + 3) |->
        IF j = 1 THEN NameOfSmallInt(Threshold)
        ELSE IF j = (2 * KeyCount) + 2 THEN NameOfSmallInt(Declared)
        ELSE IF j = (2 * KeyCount) + 3 THEN NameCheckMultisig
        ELSE IF j % 2 = 0 THEN NameOfPush(KeyLen)
        ELSE Hex(Key((j - 1) \div 2))]

IsStrictPrefixOfTemplate == Script \in PrefixScripts

\* C1: a strict prefix of a script of a recognized template fails with
\* UnexpectedEof; the call never panics.
C1_PrefixFailsWithEof ==
    (Done /\ IsStrictPrefixOfTemplate) => result = ErrEof

\* C4: an m-of-n script (1 <= m <= n <= 16) of n 65-byte key pushes parses to the
\* threshold name, n pairs (OP_PUSHBYTES_65, hex of the key) in input order, the
\* count name and OP_CHECKMULTISIG.
C4_MultisigRoundTrip ==
    (Done /\ IsMultisig /\ KeyLen = 65 /\ KeyCount = Declared /\ Threshold <= Declared)
        => result = Ok(Join(MultisigTokens))

\* The main.rs script p2ms_2: 1-of-2 with two 33-byte keys of zeros.
IsMainP2ms2 == Script = MultisigScript(0, 1, 2, 33, 2)

\* C5 as claimed: a multisig script whose key pushes are not 65 bytes long is
\* rejected with an InvalidData error and no output.
C5_Only65ByteKeys ==
    (Done /\ threshold_opcode # NoOpcode /\ IsMultisig /\ KeyLen # 65) =>
        (result.kind = "Err" /\ result.error = "InvalidData")

\* C5, amended: key pushes of any length are accepted.  A multisig script of
\* n >= 2 pushes PushBytes(k), k in 1..75, with matching count opcode and a
\* threshold m <= n parses to the threshold name, n pairs (OP_PUSHBYTES_<k>, hex of
\* the key), the count name and OP_CHECKMULTISIG; except m = 1 with k = 32, which
\* parse decodes as P2TR.
C5_AnyKeyLengthAccepted ==
    (Done /\ IsMultisig /\ KeyCount >= 2 /\ KeyCount = Declared /\ Threshold <= Declared
          /\ ~(Threshold = 1 /\ KeyLen = 32))
        => result = Ok(Join(MultisigTokens))

C5_Witness ==
    /\ Done
    /\ IsMainP2ms2
    /\ result = Ok(Join(MultisigTokens))

\* The key pushes the decoder read: the hex tokens it pushed.
KeysRead ==
    Cardinality({i \in 1..Len(script_builder) : script_builder[i][1] # "O"})

\* The loop of parse_p2ms has ended with a count opcode.
CountOpcodeRead == parsed_pubkey_count # 0

ErrKeyCountMismatch ==
    to_io_error(
        "Invalid Script. The number of public keys for multisignature is less than or greater than the script requirements.")

ErrThresholdExceedsKeys ==
    to_io_error(
        "Invalid Script. The number of public keys for multisignature is less the threshold.")

\* C6: when the key pushes read before the count opcode are not as many as the
\* count opcode declares, parse_p2ms returns the key-count-mismatch error, before
\* it reads the byte after the count opcode.
C6_KeyCountMismatch ==
    (Done /\ CountOpcodeRead /\ KeysRead # parsed_pubkey_count) =>
        /\ result = ErrKeyCountMismatch
        /\ input[pos] \in 82..96

\* C7: a multisig script with as many keys as it declares, but fewer than its
\* threshold, fails with the threshold-exceeds-keys error.
C7_ThresholdExceedsKeys ==
    (Done /\ IsMultisig /\ KeyCount = Declared /\ Declared < Threshold) =>
        result = ErrThresholdExceedsKeys

\* C8: 0x41, 65 bytes, then a byte: "OP_PUSHBYTES_65 <hex> OP_CHECKSIG" when the
\* byte is 0xac (CHECKSIG), the expected-OP_CHECKSIG error for any other byte.
C8_P2pk ==
    (Done /\ Len(Script) >= 67 /\ Script[1] = 65) =>
        IF Script[67] = 172
        THEN result = Ok(Join(<<NameOfPush(65), Hex(SubSeq(Script, 2, 66)), NameCheckSig>>))
        ELSE result = Err("InvalidData",
                          "Invalid Data. Expected OP_CHECKSIG as last byte of the script.")

C8_Witness ==
    /\ Done
    /\ Script = P2pkScript(1)
    /\ result.kind = "Ok"
    /\ Len(result.out) = 158

\* The first opcodes parse has a decoder for.
RecognizedFirstBytes == {65, 118, 169, 106, 0, 81} \cup (82..96)

FirstByteUnrecognized == Len(Script) >= 1 /\ Script[1] \notin RecognizedFirstBytes

ErrInvalidScript == to_io_error("Invalid Script.")

\* C9 as claimed: an unrecognized first opcode gives the unrecognized-template or
\* the unsupported-opcode error.
C9_UnrecognizedFirstOpcode ==
    (Done /\ FirstByteUnrecognized) => result \in {ErrInvalidScript, ErrUnsupportedOpcode}

\* C9, amended: an unrecognized first opcode never succeeds and pushes no token:
\* followed by at least one byte it gives the error "Invalid Script." of
\* parse_p2ms, alone in the script it gives UnexpectedEof (the second read of
\* parse fails before any decoder sees the byte).
C9_UnrecognizedFirstOpcodeFails ==
    (Done /\ FirstByteUnrecognized) =>
        /\ result = IF Len(Script) >= 2 THEN ErrInvalidScript ELSE ErrEof
        /\ script_builder = <<>>

C9_Witness ==
    /\ Done
    /\ Len(Script) >= 2
    /\ Script[1] = 255
    /\ result = ErrInvalidScript

HexValue(c) ==
    CASE c = "a" -> 10 [] c = "b" -> 11 [] c = "c" -> 12 [] c = "d" -> 13
      [] c = "e" -> 14 [] c = "f" -> 15 [] OTHER -> DigitValue(c)

\* The bytes a hex token stands for (no bytes at all for a malformed one).
BytesOfHex(token) ==
    IF Len(token) % 2 = 1 \/ \E i \in 1..Len(token) : HexValue(token[i]) < 0 THEN <<-1>>
    ELSE [i \in 1..(Len(token) \div 2) |->
            (16 * HexValue(token[(2 * i) - 1])) + HexValue(token[2 * i])]

IsNumeral(digits) ==
    /\ digits # <<>>
    /\ \A i \in 1..Len(digits) : DigitValue(digits[i]) >= 0
    /\ Len(digits) > 1 => digits[1] # "0"

\* The byte of the byte-opcode table an opcode name stands for (-1 for no name).
ByteOfName(token) ==
    LET push == <<"O", "P", "_", "P", "U", "S", "H", "B", "Y", "T", "E", "S", "_">>
        digits == SubSeq(token, 4, Len(token))
    IN  IF Len(token) > 13 /\ SubSeq(token, 1, 13) = push
        THEN LET n == SubSeq(token, 14, Len(token))
             IN  IF IsNumeral(n) /\ DecimalValue(n) \in 1..75 THEN DecimalValue(n) ELSE -1
        ELSE IF IsNumeral(digits)
        THEN (IF DecimalValue(digits) = 0 THEN 0
              ELSE IF DecimalValue(digits) \in 1..16 THEN 80 + DecimalValue(digits)
              ELSE -1)
        ELSE IF token = C3_FixedName(OP_RETURN) THEN 106
        ELSE IF token = C3_FixedName(OP_DUP) THEN 118
        ELSE IF token = C3_FixedName(OP_EQUAL) THEN 135
        ELSE IF token = C3_FixedName(OP_EQUALVERIFY) THEN 136
        ELSE IF token = C3_FixedName(OP_HASH160) THEN 169
        ELSE IF token = C3_FixedName(OP_CHECKSIG) THEN 172
        ELSE IF token = C3_FixedName(OP_CHECKMULTISIG) THEN 174
        ELSE -1

BytesOfToken(token) ==
    IF Len(token) >= 3 /\ SubSeq(token, 1, 3) = <<"O", "P", "_">>
    THEN <<ByteOfName(token)>>
    ELSE BytesOfHex(token)

\* The bytes the tokens of text[first..last] stand for, in the order of the
\* tokens; the tokens are what single spaces separate.
RECURSIVE BytesOfText(_, _, _)
BytesOfText(text, first, last) ==
    LET middle == (first + last) \div 2
        after == {i \in middle..last : text[i] = " "}
        before == {i \in first..(middle - 1) : text[i] = " "}
        spaces == IF after # {} THEN after ELSE before
    IN  IF spaces = {} THEN BytesOfToken(SubSeq(text, first, last))
        ELSE LET space == CHOOSE i \in spaces : TRUE
             IN  BytesOfText(text, first, space - 1) \o BytesOfText(text, space + 1, last)

\* C10: the output of a successful parse, read back token by token (a name to its
\* byte, a hex token to its bytes), is exactly the bytes the call consumed, in order.
C10_OutputMirrorsInput ==
    (Done /\ result.kind = "Ok") =>
        BytesOfText(result.out, 1, Len(result.out)) = Consumed

C10_Witness ==
    /\ Done
    /\ result.kind = "Ok"
    /\ start = 1
    /\ Script = MultisigScript(0, 1, 2, 65, 2)
    /\ Consumed = Script

(***************************************************************************)
(* VarInt (varint.rs).  A usize, a u16, a u32 or a u64 is the sequence of  *)
(* its decimal digits, least significant first, zero being <<>>: the       *)
(* values of 64 bits do not fit the integers of the checker.               *)
(***************************************************************************)
\* The bytes of a usize: the tests of varint.rs need the usize of 64 bits.
UsizeBytes == 8

\* The digits of a small number.
RECURSIVE DigitsOf(_)
DigitsOf(n) == IF n = 0 THEN <<>> ELSE <<n % 10>> \o DigitsOf(n \div 10)

\* The digits of  value * 256 + carry,  from the digit `at` of value on.
RECURSIVE TimesPlusFrom(_, _, _)
TimesPlusFrom(value, at, carry) ==
    IF at > Len(value) THEN DigitsOf(carry)
    ELSE LET t == (value[at] * 256) + carry
         IN  <<t % 10>> \o TimesPlusFrom(value, at + 1, t \div 10)

\* from_be_bytes: the first byte is the most significant.
RECURSIVE from_be_bytes(_)
from_be_bytes(buffer) ==
    IF buffer = <<>> THEN <<>>
    ELSE TimesPlusFrom(from_be_bytes(SubSeq(buffer, 1, Len(buffer) - 1)), 1,
                       buffer[Len(buffer)])

\* u16::from_le_bytes, u32::from_le_bytes, u64::from_le_bytes: the first byte is
\* the least significant.
RECURSIVE from_le_bytes(_)
from_le_bytes(buffer) ==
    IF buffer = <<>> THEN <<>>
    ELSE TimesPlusFrom(from_le_bytes(Tail(buffer)), 1, Head(buffer))

\* `as usize` of an unsigned value of Len(buffer) bytes: its low UsizeBytes bytes.
AsUsize(buffer) ==
    from_le_bytes(SubSeq(buffer, 1, IF Len(buffer) < UsizeBytes THEN Len(buffer)
                                    ELSE UsizeBytes))

\* VarInt::parse
VarInt_parse(byte) ==
    IF byte <= 252 THEN 1
    ELSE IF byte = 253 THEN 2
    ELSE IF byte = 254 THEN 4
    ELSE 8

ErrByteLength == Err("NotFound", "The byte length specified is not supported")

\* VarInt::integer on the Cursor at `position`: [result, position] when no read
\* fails; a failing read_exact is the concern of the action.
VarInt_integer(byte_len, position) ==
    IF byte_len = 1
    THEN [result |-> Ok(AsUsize(<<input[position]>>)), position |-> (position - 1) + 1]
    ELSE IF byte_len \in {2, 4, 8}
    THEN [result |-> Ok(AsUsize(SubSeq(input, position + 1, position + byte_len))),
          position |-> position + byte_len]
    ELSE [result |-> ErrByteLength, position |-> position]

\* What the steps on a VarInt leave alone.
VarIntUnchanged ==
    UNCHANGED <<input, start, first_opcode, threshold_opcode, pubkey_count,
                parsed_pubkey_count, pushbytes_buffer, script_builder>>

\* bytes.read_exact(&mut varint_byte): the prefix byte, as the callers read it.
VarIntReadPrefix ==
    /\ pc = "varint_prefix"
    /\ VarIntUnchanged
    /\ IF Remaining < 1 THEN ReturnEof(0) /\ UNCHANGED arg
       ELSE /\ arg' = [kind |-> "byte", byte |-> ByteAt(0), opcode |-> NoOpcode]
            /\ Goto("varint_integer", 1)

\* VarInt::integer(VarInt::parse(varint_byte[0]), &mut bytes)
VarIntInteger ==
    /\ pc = "varint_integer"
    /\ VarIntUnchanged
    /\ UNCHANGED arg
    /\ LET byte_len == VarInt_parse(arg.byte)
       IN  IF byte_len \in {2, 4, 8} /\ Remaining < byte_len THEN ReturnEof(0)
           ELSE /\ result' = VarInt_integer(byte_len, pos).result
                /\ pos' = VarInt_integer(byte_len, pos).position
                /\ pc' = "done"

MaxTail == 9

\* The prefix bytes: the ends of the four ranges of VarInt::parse, and some between.
VarIntPrefixes == {0, 1, 100, 252, 253, 254, 255}

\* The bytes after the prefix: of every length, all zero, all one (the tests), all
\* 255 and mixed.
VarIntTails ==
    {[j \in 1..len |-> fill] : len \in 0..MaxTail, fill \in {0, 1, 255}}
        \cup {Payload(seed, len) : seed \in {1, 7}, len \in 1..MaxTail}

VarIntInit ==
    /\ \E before \in {0, 4} : \E prefix \in VarIntPrefixes : \E tail \in VarIntTails :
            /\ input = Before(before) \o <<prefix>> \o tail
            /\ start = before
            /\ pos = before
    /\ pc = "varint_prefix"
    /\ first_opcode = NoOpcode
    /\ threshold_opcode = NoOpcode
    /\ pubkey_count = 0
    /\ parsed_pubkey_count = 0
    /\ pushbytes_buffer = <<>>
    /\ script_builder = ScriptBuilderNew
    /\ result = NoResult
    /\ arg = NoArg

VarIntNext == VarIntReadPrefix \/ VarIntInteger

VarIntSpec == VarIntInit /\ [][VarIntNext]_vars

\* Half of a number, rounded down.
Halved(value) ==
    LET quotient == [at \in 1..Len(value) |->
                        (((IF at < Len(value) THEN value[at + 1] % 2 ELSE 0) * 10)
                            + value[at]) \div 2]
    IN  IF value # <<>> /\ quotient[Len(value)] = 0
        THEN SubSeq(quotient, 1, Len(value) - 1) ELSE quotient

\* The low `count` bits of a number, the least significant first, followed by what
\* is left of the number above them.
RECURSIVE BitsOfNumber(_, _)
BitsOfNumber(value, count) ==
    IF count = 0 THEN <<value>>
    ELSE <<IF value = <<>> THEN 0 ELSE value[1] % 2>>
            \o BitsOfNumber(Halved(value), count - 1)

Power2(k) == CASE k = 0 -> 1 [] k = 1 -> 2 [] k = 2 -> 4 [] k = 3 -> 8 [] k = 4 -> 16
               [] k = 5 -> 32 [] k = 6 -> 64 [] k = 7 -> 128

\* The bits of a sequence of bytes, the least significant bit of the first byte first.
BitsOfBytes(bytes) ==
    [k \in 1..(8 * Len(bytes)) |->
        (bytes[((k - 1) \div 8) + 1] \div Power2((k - 1) % 8)) % 2]

\* `value` is the number whose little-endian bytes are `bytes`.
IsLittleEndianValue(value, bytes) ==
    /\ \A i \in 1..Len(value) : value[i] \in 0..9
    /\ value # <<>> => value[Len(value)] # 0
    /\ BitsOfNumber(value, 8 * Len(bytes)) = BitsOfBytes(bytes) \o << <<>> >>

\* The prefix byte the call read, and the bytes after it.
VarIntPrefix == input[start + 1]

VarIntFollowing == Len(input) - (start + 1)

\* C11: after the prefix byte b, VarInt::integer(VarInt::parse(b), cursor) returns b
\* and leaves the cursor after the prefix when b <= 252; for b = 253, 254, 255 it
\* returns the little-endian value of the next 2, 4, 8 bytes and advances the
\* cursor by as many.
C11_VarIntValue ==
    (Done /\ arg.kind = "byte") =>
        LET b == VarIntPrefix
            width == CASE b = 253 -> 2 [] b = 254 -> 4 [] b = 255 -> 8 [] OTHER -> 0
        IN  /\ arg.byte = b
            /\ b <= 252 =>
                    /\ result.kind = "Ok"
                    /\ IsLittleEndianValue(result.out, <<b>>)
                    /\ pos = start + 1
            /\ (b >= 253 /\ VarIntFollowing >= width) =>
                    /\ result.kind = "Ok"
                    /\ IsLittleEndianValue(result.out,
                                           SubSeq(input, start + 2, start + 1 + width))
                    /\ pos = start + 1 + width

\* The test varint_255: four bytes, 255, then ones; the value is 72340172838076673.
C11_Witness ==
    /\ Done
    /\ start = 4
    /\ Len(input) >= 13
    /\ SubSeq(input, 5, 13) = <<255, 1, 1, 1, 1, 1, 1, 1, 1>>
    /\ result = Ok(<<3, 7, 6, 6, 7, 0, 8, 3, 8, 2, 7, 1, 0, 4, 3, 2, 7>>)
    /\ pos = 13

(***************************************************************************)
(* TxVersion (version.rs).  A u32 is the sequence of its decimal digits,   *)
(* least significant first, as the values of VarInt are.                   *)
(***************************************************************************)
One == [tag |-> "One", version |-> <<>>]

Two == [tag |-> "Two", version |-> <<>>]

Custom(version) == [tag |-> "Custom", version |-> version]

\* The remainder of a number divided by 256, the digits above `at` having left `rem`.
RECURSIVE RemainderFrom(_, _, _)
RemainderFrom(value, at, rem) ==
    IF at = 0 THEN rem
    ELSE RemainderFrom(value, at - 1, ((rem * 10) + value[at]) % 256)

Remainder256(value) == RemainderFrom(value, Len(value), 0)

\* A number without the zeros above its most significant digit.
Canonical(digits) ==
    LET used == {i \in 1..Len(digits) : digits[i] # 0}
    IN  IF used = {} THEN <<>>
        ELSE SubSeq(digits, 1, CHOOSE i \in used : \A j \in used : j <= i)

\* A number divided by 256, rounded down.
Quotient256(value) ==
    Canonical([at \in 1..Len(value) |->
        ((Remainder256(SubSeq(value, at + 1, Len(value))) * 10) + value[at]) \div 256])

\* to_be_bytes: the most significant byte first.
RECURSIVE to_be_bytes(_, _)
to_be_bytes(value, width) ==
    IF width = 0 THEN <<>>
    ELSE Append(to_be_bytes(Quotient256(value), width - 1), Remainder256(value))

\* u32::to_le_bytes (width 4): the least significant byte first.
RECURSIVE to_le_bytes(_, _)
to_le_bytes(value, width) ==
    IF width = 0 THEN <<>>
    ELSE <<Remainder256(value)>> \o to_le_bytes(Quotient256(value), width - 1)

\* TxVersion::to_bytes
TxVersion_to_bytes(self) ==
    CASE self.tag = "One" -> to_le_bytes(<<1>>, 4)
      [] self.tag = "Two" -> to_le_bytes(<<2>>, 4)
      [] self.tag = "Custom" -> to_le_bytes(self.version, 4)

\* TxVersion::from_bytes
TxVersion_from_bytes(bytes) ==
    LET parsed == from_le_bytes(bytes)
    IN  IF parsed = <<1>> THEN One
        ELSE IF parsed = <<2>> THEN Two
        ELSE Custom(parsed)

MaxVersion == 40

\* 2147483648 and 4294967295, the least significant digit first.
U32HighBit == <<8, 4, 6, 3, 8, 4, 7, 4, 1, 2>>

U32Max == <<5, 9, 2, 7, 6, 9, 4, 9, 2, 4>>

\* The u32 values of Custom: the small ones, those about the byte boundaries, and
\* the largest.
U32Values ==
    {DigitsOf(n) : n \in 0..MaxVersion}
        \cup {DigitsOf(n) : n \in {255, 256, 257, 65535, 65536, 16777215, 16777216,
                                   16843009, 2147483647}}
        \cup {U32HighBit, U32Max}

TxVersions == {One, Two} \cup {Custom(n) : n \in U32Values}

VersionByteValues == {0, 1, 2, 30, 255}

VersionBytes ==
    {<<b0, b1, b2, b3>> : b0 \in VersionByteValues, b1 \in VersionByteValues,
                          b2 \in VersionByteValues, b3 \in VersionByteValues}

VersionUnchanged ==
    UNCHANGED <<input, start, pos, first_opcode, threshold_opcode, pubkey_count,
                parsed_pubkey_count, script_builder, arg>>

\* to_bytes of a version, then from_bytes of the result; or from_bytes of an array
\* of four bytes, then to_bytes of the result.
VersionInit ==
    /\ \/ /\ pc = "to_bytes"
          /\ \E version \in TxVersions : arg = [kind |-> "version", value |-> version]
       \/ /\ pc = "from_bytes"
          /\ \E bytes \in VersionBytes : arg = [kind |-> "bytes", value |-> bytes]
    /\ input = <<>>
    /\ start = 0
    /\ pos = 0
    /\ first_opcode = NoOpcode
    /\ threshold_opcode = NoOpcode
    /\ pubkey_count = 0
    /\ parsed_pubkey_count = 0
    /\ pushbytes_buffer = <<>>
    /\ script_builder = ScriptBuilderNew
    /\ result = NoResult

\* TxVersion::to_bytes, of the argument or of what from_bytes returned; the bytes
\* are kept in pushbytes_buffer.
ToBytes ==
    /\ pc \in {"to_bytes", "to_bytes_back"}
    /\ VersionUnchanged
    /\ LET self == IF pc = "to_bytes" THEN arg.value ELSE result.out
       IN  /\ result' = Ok(TxVersion_to_bytes(self))
           /\ pushbytes_buffer' = TxVersion_to_bytes(self)
    /\ pc' = IF pc = "to_bytes" THEN "from_bytes_back" ELSE "done"

\* TxVersion::from_bytes, of the argument or of what to_bytes returned.
FromBytes ==
    /\ pc \in {"from_bytes", "from_bytes_back"}
    /\ VersionUnchanged
    /\ UNCHANGED pushbytes_buffer
    /\ LET bytes == IF pc = "from_bytes" THEN arg.value ELSE result.out
       IN  result' = Ok(TxVersion_from_bytes(bytes))
    /\ pc' = IF pc = "from_bytes" THEN "to_bytes_back" ELSE "done"

VersionNext == ToBytes \/ FromBytes

VersionSpec == VersionInit /\ [][VersionNext]_vars

\* The version number of a TxVersion.
VersionNumber(version) ==
    CASE version.tag = "One" -> <<1>>
      [] version.tag = "Two" -> <<2>>
      [] version.tag = "Custom" -> version.version

\* to_bytes has returned the four little-endian bytes of the version number.
C12_ToBytesIsLittleEndian ==
    (arg.kind = "version" /\ pc \in {"from_bytes_back", "done"}) =>
        /\ Len(pushbytes_buffer) = 4
        /\ IsLittleEndianValue(VersionNumber(arg.value), pushbytes_buffer)

\* C12 as claimed: to_bytes gives the four little-endian bytes of the version
\* number, from_bytes(v.to_bytes()) = v for every TxVersion v, and
\* from_bytes(b).to_bytes() = b for every array b of four bytes.
C12_RoundTrip ==
    /\ C12_ToBytesIsLittleEndian
    /\ Done => result.out = arg.value

\* C12, amended: as claimed, but from_bytes(v.to_bytes()) = v only for One, Two and
\* Custom(n) with n neither 1 nor 2; Custom(1) comes back as One, Custom(2) as Two.
C12_RoundTripNormalised ==
    /\ C12_ToBytesIsLittleEndian
    /\ (Done /\ arg.kind = "bytes") => result.out = arg.value
    /\ (Done /\ arg.kind = "version") =>
            result.out = IF arg.value = Custom(<<1>>) THEN One
                         ELSE IF arg.value = Custom(<<2>>) THEN Two
                         ELSE arg.value

C12_Witness ==
    /\ Done
    /\ arg.kind = "version"
    /\ arg.value = Custom(U32Max)
    /\ pushbytes_buffer = <<255, 255, 255, 255>>
    /\ result.out = Custom(U32Max)

(***************************************************************************)
(* Properties of the dispatch of StandardScripts::parse                    *)
(***************************************************************************)
ErrAfterOp0 ==
    Err("InvalidData",
        "Invalid Script. Expected OP_PUSHBYTES_20 or OP_PUSHBYTES_32 after OP_0")

\* The output "OP_<n> OP_PUSHBYTES_<len> <hex>" for the `len` bytes after the first
\* two of the script.
WitnessProgramText(n, len) ==
    Join(<<NameOfSmallInt(n), NameOfPush(len), Hex(SubSeq(Script, 3, len + 2))>>)

\* C13: after a first opcode OP_0 exactly one more opcode is read: PushBytes(20)
\* and 20 bytes give "OP_0 OP_PUSHBYTES_20 <hex>", PushBytes(32) and 32 bytes give
\* "OP_0 OP_PUSHBYTES_32 <hex>", any other second opcode gives the error of the
\* OP_0 branch; the multisig decoder is never entered.
C13_ZeroBranch ==
    /\ first_opcode = OP_0 =>
            /\ pc \in {"parse_p2wpkh", "parse_p2wsh", "done"}
            /\ threshold_opcode = NoOpcode
    /\ (Done /\ Len(Script) >= 2 /\ Script[1] = 0) =>
            IF Script[2] = 20
            THEN Len(Script) >= 22 =>
                    (result = Ok(WitnessProgramText(0, 20)) /\ pos = start + 22)
            ELSE IF Script[2] = 32
            THEN Len(Script) >= 34 =>
                    (result = Ok(WitnessProgramText(0, 32)) /\ pos = start + 34)
            ELSE result = ErrAfterOp0 /\ pos = start + 2

C13_Witness ==
    /\ Done
    /\ Script = P2wshScript(1)
    /\ result = Ok(WitnessProgramText(0, 32))

\* The first opcodes that fall through to the last branch of parse.
FallsThrough == Len(Script) >= 2 /\ Script[1] \notin {65, 118, 169, 106, 0}

IsOneThenPush32 == Script[1] = 81 /\ Script[2] = 32

\* C14: in the last branch of parse, OP_1 followed by PushBytes(32) is decoded as
\* P2TR; in every other case the multisig decoder is entered with the Cursor where
\* it was when parse was called, and the threshold it reads is the first opcode.
C14_RewindToStart ==
    /\ pc = "parse_p2tr" => (FallsThrough /\ IsOneThenPush32 /\ pos = start + 2)
    /\ pc = "parse_p2ms" =>
            (FallsThrough /\ ~IsOneThenPush32 /\ pos = start /\ pos >= 0)
    /\ threshold_opcode # NoOpcode =>
            (threshold_opcode = first_opcode /\ FallsThrough /\ ~IsOneThenPush32)
    /\ (Done /\ FallsThrough) =>
            IF IsOneThenPush32
            THEN /\ threshold_opcode = NoOpcode
                 /\ Len(Script) >= 34 =>
                        (result = Ok(WitnessProgramText(1, 32)) /\ pos = start + 34)
            ELSE threshold_opcode = from_byte(Script[1])

C14_Witness ==
    /\ pc = "p2ms_loop"
    /\ start = 1
    /\ Script = MultisigScript(0, 1, 2, 65, 2)
    /\ threshold_opcode = OP_1
    /\ pos = start + 1

(***************************************************************************)
(* Properties of the multisig and the data-carrier decoder                 *)
(***************************************************************************)
\* C15: byte 81 (OP_1) is accepted by the multisig decoder as a threshold of 1 and
\* as a declared key count of 1: a multisig script with threshold opcode 81, or with
\* one key and count opcode 81, parses as it does with the opcodes of 2..16; the
\* 1-of-1 script 51 41 <65 bytes> 51 ae is accepted.
C15_OneAsThresholdAndCount ==
    (Done /\ IsMultisig /\ KeyCount = Declared /\ Threshold <= Declared
          /\ (Threshold = 1 \/ Declared = 1) /\ KeyLen # 32)
        => result = Ok(Join(MultisigTokens))

ErrNotSupported == Err("Unsupported", "This operation is not supported")

\* C16: after OP_RETURN one opcode is read; PushBytes(n) followed by at least n
\* bytes gives "OP_RETURN OP_PUSHBYTES_<n> <hex of the n bytes>" with the cursor
\* n + 1 bytes after the OP_RETURN; an opcode that is no PushBytes gives the
\* unsupported error of read_bytes and no token.
C16_DataCarrier ==
    (Done /\ Len(Script) >= 2 /\ Script[1] = 106) =>
        LET n == Script[2]
        IN  IF n \in 1..75
            THEN Len(Script) >= n + 2 =>
                    /\ result = Ok(Join(<<C3_FixedName(OP_RETURN), NameOfPush(n),
                                          Hex(SubSeq(Script, 3, n + 2))>>))
                    /\ pos = (start + 1) + (n + 1)
            ELSE /\ result = ErrNotSupported
                 /\ script_builder = <<>>

C16_Witness ==
    /\ Done
    /\ Script = DataScript(1, 75)
    /\ result.kind = "Ok"
    /\ pos = start + 77

\* The name of the opcode a byte of the byte-opcode table stands for.
NameOfByte(byte) ==
    IF byte \in 1..75 THEN NameOfPush(byte)
    ELSE IF byte = 0 THEN NameOfSmallInt(0)
    ELSE IF byte \in 81..96 THEN NameOfSmallInt(byte - 80)
    ELSE C3_FixedName(C2_Table(byte))

\* The tokens of a script laid out as `layout` says: 0 for an opcode byte, n > 0 for
\* n bytes of data.
RECURSIVE TokensOf(_, _, _, _)
TokensOf(script, layout, item, at) ==
    IF item > Len(layout) THEN <<>>
    ELSE IF layout[item] = 0
    THEN <<NameOfByte(script[at])>> \o TokensOf(script, layout, item + 1, at + 1)
    ELSE <<Hex(SubSeq(script, at, (at + layout[item]) - 1))>>
            \o TokensOf(script, layout, item + 1, at + layout[item])

Template(script, layout) ==
    [script |-> script, text |-> Join(TokensOf(script, layout, 1, 1))]

\* Scripts of every template, with the text each stands for.
C17_Templates ==
    {Template(P2pkScript(1), <<0, 65, 0>>),
     Template(P2pkhScript(1), <<0, 0, 0, 20, 0, 0>>),
     Template(P2shScript(1), <<0, 0, 20, 0>>),
     Template(P2wpkhScript(1), <<0, 0, 20>>),
     Template(P2wshScript(1), <<0, 0, 32>>),
     Template(P2trScript(1), <<0, 0, 32>>),
     Template(DataScript(1, 1), <<0, 0, 1>>),
     Template(MultisigScript(1, 1, 2, 65, 2), <<0, 0, 65, 0, 65, 0, 0>>),
     Template(MultisigScript(1, 2, 2, 33, 2), <<0, 0, 33, 0, 33, 0, 0>>)}

\* The script begins with `script`, and what follows is nothing or one of the tails.
IsFollowedByTail(script) ==
    /\ Len(Script) >= Len(script)
    /\ SubSeq(Script, 1, Len(script)) = script
    /\ SubSeq(Script, Len(script) + 1, Len(Script)) \in TrailingTails \cup {<<>>}

\* C17: bytes after a script are not looked at: a script that parses, followed by
\* any bytes, parses to the same text as alone, and the cursor ends right after the
\* script.
C17_TrailingBytesIgnored ==
    Done =>
        \A template \in C17_Templates :
            IsFollowedByTail(template.script) =>
                /\ result = Ok(template.text)
                /\ pos = start + Len(template.script)

C17_Witness ==
    /\ Done
    /\ Script = P2pkhScript(1) \o <<255>>
    /\ result.kind = "Ok"
    /\ pos = Len(input) - 1

\* C18: a call ends with a success or an error, and the key loop has run at most as
\* many iterations as the cursor has passed bytes since the threshold opcode.
C18_TerminatesWithResult ==
    /\ Done => result.kind \in {"Ok", "Err"}
    /\ threshold_opcode # NoOpcode =>
            /\ pos <= Len(input)
            /\ KeysRead <= pos - start

\* C19: when the multisig decoder returns success, the key pushes it consumed are
\* as many as the count opcode declares, whatever their number.
C19_CountedKeysAreDeclared ==
    (Done /\ threshold_opcode # NoOpcode /\ result.kind = "Ok") =>
        KeysRead = parsed_pubkey_count

====
